---------------------------- MODULE Spec2Model ----------------------------
(***************************************************************************)
(* A model of verify-grpc-logs.py: the credential loader, the five         *)
(* sequential log searches, the field inspector, the content-sample        *)
(* extractor and the final verdict.                                        *)
(*                                                                         *)
(* Python strings are sequences of one-character strings (the one          *)
(* non-ASCII character used is written "U+00E9").  JSON values are         *)
(* records tagged by t: "null", "bool", "num", "str", "list", "obj"; an    *)
(* object is the ordered sequence of its <<key, value>> pairs, as a Python *)
(* dict keeps insertion order.                                             *)
(***************************************************************************)
EXTENDS Integers, Sequences, FiniteSets, TLC

VARIABLES
    pc,               \* position in the script
    envFile,          \* the .env file: NoFile or its sequence of lines
    environ,          \* os.environ restricted to the two keys
    env_vars,         \* the dict load_env returned
    DD_API_KEY,
    DD_APP_KEY,
    exit_status,      \* process exit status, -1 while running
    stdout,           \* the diagnostic and verdict lines printed
    idx,              \* index into API_FUNCTIONS of the current iteration
    calls,            \* calls[i]: urlopen calls issued for function i
    outcome,          \* what the current urlopen call did
    response,         \* what search_logs returned
    results_summary,
    fn,               \* inspector runs: the function whose fields are expected
    log_entry,        \* inspector runs: the entry inspected
    field_results,    \* what check_fields_in_response returned
    sample            \* what extract_response_body returned

vars == <<pc, envFile, environ, env_vars, DD_API_KEY, DD_APP_KEY, exit_status,
          stdout, idx, calls, outcome, response, results_summary, fn,
          log_entry, field_results, sample>>

-----------------------------------------------------------------------------
(* Python values *)

\* None among strings: no string of one-character elements equals it
None == <<"<None>">>

\* a raised exception in place of a return value
Raised(e) == [raised |-> TRUE, exc |-> e]
Returned(v) == [raised |-> FALSE, value |-> v]

JNull == [t |-> "null"]
JBool(b) == [t |-> "bool", b |-> b]
JNum(n) == [t |-> "num", n |-> n]
JStr(s) == [t |-> "str", s |-> s]
JList(items) == [t |-> "list", items |-> items]
JObj(kv) == [t |-> "obj", kv |-> kv]

\* bool(v) of a decoded JSON value
Truthy(v) ==
    CASE v.t = "null" -> FALSE
      [] v.t = "bool" -> v.b
      [] v.t = "num" -> v.n # 0
      [] v.t = "str" -> v.s # <<>>
      [] v.t = "list" -> v.items # <<>>
      [] v.t = "obj" -> v.kv # <<>>

HasKey(o, k) == \E i \in 1..Len(o.kv) : o.kv[i][1] = k

\* dict.get(k, default) on a dict
DictGet(o, k, default) ==
    IF HasKey(o, k)
    THEN o.kv[CHOOSE i \in 1..Len(o.kv) : o.kv[i][1] = k][2]
    ELSE default

\* v.get(k, default) on any value: only a dict has .get
Get(v, k, default) ==
    IF v.t = "obj" THEN Returned(DictGet(v, k, default))
    ELSE Raised("AttributeError")

-----------------------------------------------------------------------------
(* str.lower, the in operator, slicing *)

UpperCase == <<"A", "B", "C", "D", "E", "F", "G", "H", "I", "J", "K", "L", "M", "N", "O", "P", "Q", "R", "S", "T", "U", "V", "W", "X", "Y", "Z">>
LowerCase == <<"a", "b", "c", "d", "e", "f", "g", "h", "i", "j", "k", "l", "m", "n", "o", "p", "q", "r", "s", "t", "u", "v", "w", "x", "y", "z">>

UpperSet == {UpperCase[i] : i \in 1..26}
LowerTable ==
    [u \in UpperSet |-> LowerCase[CHOOSE i \in 1..26 : UpperCase[i] = u]]

LowerChar(c) == IF c \in UpperSet THEN LowerTable[c] ELSE c

lower(s) == [i \in 1..Len(s) |-> LowerChar(s[i])]

\* s[:n]
Prefix(s, n) == IF Len(s) <= n THEN s ELSE SubSeq(s, 1, n)

\* needle in hay
In(needle, hay) ==
    \E i \in 1..(Len(hay) - Len(needle) + 1) :
        SubSeq(hay, i, i + Len(needle) - 1) = needle

RECURSIVE Concat(_)
\* "".join(ss), by halves
Concat(ss) ==
    IF ss = <<>> THEN <<>>
    ELSE IF Len(ss) = 1 THEN ss[1]
    ELSE LET h == Len(ss) \div 2
         IN  Concat(SubSeq(ss, 1, h)) \o Concat(SubSeq(ss, h + 1, Len(ss)))

-----------------------------------------------------------------------------
(* json.dumps *)

DigitChars == <<"0", "1", "2", "3", "4", "5", "6", "7", "8", "9">>

RECURSIVE Digits(_)
Digits(n) ==
    IF n < 10 THEN <<DigitChars[n + 1]>>
    ELSE Digits(n \div 10) \o <<DigitChars[(n % 10) + 1]>>

\* one character of a string under ensure_ascii=True
EscapeChar(c) ==
    CASE c = "\"" -> <<"\\", "\"">>
      [] c = "\\" -> <<"\\", "\\">>
      [] c = "\n" -> <<"\\", "n">>
      [] c = "U+00E9" -> <<"\\", "u", "0", "0", "e", "9">>
      [] OTHER -> <<c>>

Quote(s) == <<"\"">> \o Concat([i \in 1..Len(s) |-> EscapeChar(s[i])]) \o <<"\"">>

Spaces(n) == [i \in 1..n |-> " "]

\* sep.join(parts)
Join(parts, sep) ==
    Concat([i \in 1..(2 * Len(parts) - 1) |->
               IF i % 2 = 1 THEN parts[(i + 1) \div 2] ELSE sep])

RECURSIVE Dumps(_, _, _)
\* json.dumps(v, indent=indent) at nesting level; indent = -1 is indent=None
Dumps(v, indent, level) ==
    LET Container(open, close, parts) ==
            IF parts = <<>> THEN open \o close
            ELSE IF indent < 0 THEN open \o Join(parts, <<",", " ">>) \o close
            ELSE open \o <<"\n">> \o Spaces(indent * (level + 1))
                      \o Join(parts, <<",", "\n">> \o Spaces(indent * (level + 1)))
                      \o <<"\n">> \o Spaces(indent * level) \o close
    IN  CASE v.t = "null" -> <<"n", "u", "l", "l">>
          [] v.t = "bool" -> IF v.b THEN <<"t", "r", "u", "e">> ELSE <<"f", "a", "l", "s", "e">>
          [] v.t = "num" -> Digits(v.n)
          [] v.t = "str" -> Quote(v.s)
          [] v.t = "list" ->
                Container(<<"[">>, <<"]">>,
                    [i \in 1..Len(v.items) |-> Dumps(v.items[i], indent, level + 1)])
          [] v.t = "obj" ->
                Container(<<"{">>, <<"}">>,
                    [i \in 1..Len(v.kv) |->
                        Quote(v.kv[i][1]) \o <<":", " ">>
                            \o Dumps(v.kv[i][2], indent, level + 1)])

-----------------------------------------------------------------------------
(* The script's constants and pure functions *)

API_FUNCTIONS == <<
    [name |-> "GetDeliveryOrder",
     expected_fields |-> <<<<"c", "o", "o", "r", "d", "i", "n", "a", "t", "e", "s">>, <<"a", "d", "d", "r", "e", "s", "s">>, <<"l", "a", "t", "i", "t", "u", "d", "e">>, <<"l", "o", "n", "g", "i", "t", "u", "d", "e">>>>,
     description |-> "Single order lookup with address/coordinates"],
    [name |-> "GetTripDetails",
     expected_fields |-> <<<<"o", "r", "d", "e", "r", "s">>, <<"c", "o", "o", "r", "d", "i", "n", "a", "t", "e", "s">>, <<"a", "d", "d", "r", "e", "s", "s">>, <<"t", "r", "i", "p", "I", "D">>>>,
     description |-> "All orders in a trip with addresses"],
    [name |-> "GetRouteDetailsForTrip",
     expected_fields |-> <<<<"r", "o", "u", "t", "e", "S", "e", "g", "m", "e", "n", "t", "s">>, <<"p", "l", "a", "n", "n", "e", "d">>, <<"a", "c", "t", "u", "a", "l">>>>,
     description |-> "Route waypoints (planned vs actual)"],
    [name |-> "GetLocationsDetails",
     expected_fields |-> <<<<"l", "o", "c", "a", "t", "i", "o", "n", "s">>, <<"l", "o", "c", "a", "t", "i", "o", "n", "N", "u", "m", "b", "e", "r">>, <<"c", "o", "o", "r", "d", "i", "n", "a", "t", "e", "s">>, <<"a", "d", "d", "r", "e", "s", "s">>>>,
     description |-> "Restaurant address/coordinates by location_number"],
    [name |-> "GetDeliveryDriverByID",
     expected_fields |-> <<<<"d", "r", "i", "v", "e", "r">>, <<"c", "o", "o", "r", "d", "i", "n", "a", "t", "e", "s">>, <<"d", "r", "i", "v", "e", "r", "S", "t", "a", "t", "u", "s">>>>,
     description |-> "Driver current GPS location"] >>

SampleLimit == 2000

Elems(seq) == {seq[i] : i \in 1..Len(seq)}

\* check_fields_in_response without the .lower() of line 132
check_fields_NoLower(entry, expected_fields) ==
    LET log_str == Dumps(entry, -1, 0)
    IN  [order |-> expected_fields,
         found |-> [f \in Elems(expected_fields) |-> In(lower(f), log_str)]]

\* the dict check_fields_in_response returns: insertion-ordered keys and
\* the found flag of each
check_fields_in_response(entry, expected_fields) ==
    LET log_str == lower(Dumps(entry, -1, 0))
    IN  [order |-> expected_fields,
         found |-> [f \in Elems(expected_fields) |-> In(lower(f), log_str)]]

K_attributes == <<"a", "t", "t", "r", "i", "b", "u", "t", "e", "s">>
K_response_body == <<"r", "e", "s", "p", "o", "n", "s", "e", "_", "b", "o", "d", "y">>
K_response == <<"r", "e", "s", "p", "o", "n", "s", "e">>
K_body == <<"b", "o", "d", "y">>
K_message == <<"m", "e", "s", "s", "a", "g", "e">>
K_data == <<"d", "a", "t", "a">>

EmptyDict == JObj(<<>>)

RECURSIVE FirstUsable(_)
\* the loop over possible_paths: the first truthy dict or str, cut to the limit
FirstUsable(paths) ==
    IF paths = <<>> THEN None
    ELSE LET path == Head(paths)
         IN  IF Truthy(path) /\ path.t \in {"obj", "str"}
             THEN IF path.t = "obj"
                  THEN Prefix(Dumps(path, 2, 0), SampleLimit)
                  ELSE Prefix(path.s, SampleLimit)
             ELSE FirstUsable(Tail(paths))

extract_response_body(entry) ==
    LET attrs == Get(entry, K_attributes, EmptyDict)
    IN  IF attrs.raised THEN attrs
        ELSE LET inner == Get(attrs.value, K_attributes, EmptyDict)
                 \* the first element of possible_paths; the next two call
                 \* .get on the same value
                 first == Get(inner.value, K_response_body, JNull)
             IN  IF inner.raised THEN inner
                 ELSE IF first.raised THEN first
                 ELSE LET possible_paths == <<
                              first.value,
                              DictGet(inner.value, K_response, JNull),
                              DictGet(inner.value, K_body, JNull),
                              DictGet(attrs.value, K_message, JNull),
                              inner.value >>
                          hit == FirstUsable(possible_paths)
                      IN  IF hit # None THEN Returned(hit)
                          ELSE Returned(
                                  Prefix(Dumps(attrs.value, 2, 0), SampleLimit))

-----------------------------------------------------------------------------
(* The configuration loader *)

KEY_API == <<"D", "D", "_", "A", "P", "I", "_", "K", "E", "Y">>
KEY_APP == <<"D", "D", "_", "A", "P", "P", "_", "K", "E", "Y">>

Whitespace == {" ", "\t", "\n"}

RECURSIVE lstrip(_)
lstrip(s) == IF s # <<>> /\ Head(s) \in Whitespace THEN lstrip(Tail(s)) ELSE s

RECURSIVE rstrip(_)
rstrip(s) ==
    IF s # <<>> /\ s[Len(s)] \in Whitespace
    THEN rstrip(SubSeq(s, 1, Len(s) - 1))
    ELSE s

strip(s) == rstrip(lstrip(s))

\* position of the first "=" of a line that has one
FirstEq(line) ==
    CHOOSE i \in 1..Len(line) :
        line[i] = "=" /\ \A j \in 1..(i - 1) : line[j] # "="

\* line.split('=', 1)
SplitKey(line) == SubSeq(line, 1, FirstEq(line) - 1)
SplitValue(line) == SubSeq(line, FirstEq(line) + 1, Len(line))

\* d[k] = v on a dict of strings
DictSet(d, k, v) == [x \in DOMAIN d \cup {k} |-> IF x = k THEN v ELSE d[x]]

\* d.get(k) on a dict of strings
StrGet(d, k) == IF k \in DOMAIN d THEN d[k] ELSE None

RECURSIVE ReadLines(_, _)
\* the loop of load_env over the lines of the file
ReadLines(lines, d) ==
    IF lines = <<>> THEN d
    ELSE LET line == strip(Head(lines))
         IN  IF line # <<>> /\ Head(line) # "#" /\ "=" \in Elems(line)
             THEN ReadLines(Tail(lines),
                            DictSet(d, strip(SplitKey(line)), strip(SplitValue(line))))
             ELSE ReadLines(Tail(lines), d)

load_env(file) == IF file.exists THEN ReadLines(file.lines, <<>>) ELSE <<>>

\* bool(s) of an optional string
StrTruthy(s) == s # None /\ s # <<>>

\* a or b
Or(a, b) == IF StrTruthy(a) THEN a ELSE b

\* the operands of line 39 swapped: os.getenv(key) or env_vars.get(key)
Credential_EnvFirst(vars_, env, key) == Or(env[key], StrGet(vars_, key))

\* env_vars.get(key) or os.getenv(key)
Credential(vars_, env, key) == Or(StrGet(vars_, key), env[key])

-----------------------------------------------------------------------------
(* search_logs and the loop body of main *)

Sentinel == JObj(<< <<K_data, JList(<<>>)>> >>)

\* What one urlopen call and the reads that follow it can do.
\*   URLError:  DNS failure, refused connection, timeout while connecting
\*   Timeout:   socket timeout while waiting for or reading the response,
\*              raised as TimeoutError, which is no URLError
\*   HTTPError: a non-2xx status; fp says whether it carries a body and
\*              decodable whether that body is valid UTF-8
\*   Response:  a 2xx status; decodable says whether the body is valid
\*              UTF-8, parses whether it is JSON, json is the decoded value
Outcome(kind, code, fp, decodable, parses, json) ==
    [kind |-> kind, code |-> code, fp |-> fp, decodable |-> decodable,
     parses |-> parses, json |-> json]

NoOutcome == Outcome("none", 0, FALSE, FALSE, FALSE, JNull)

\* a search_logs that calls urlopen once more after a failure
UrlopenCalls_Retry(o) == IF o.kind \in {"HTTPError", "URLError"} THEN 2 ELSE 1

\* the urlopen calls search_logs issues when the first one does o: the
\* except clauses return, none calls again
UrlopenCalls(o) == 1

\* search_logs from the urlopen call on
search_logs(o) ==
    CASE o.kind = "Response" ->
            IF ~o.decodable THEN Raised("UnicodeDecodeError")
            ELSE IF ~o.parses THEN Raised("JSONDecodeError")
            ELSE Returned(o.json)
      [] o.kind = "HTTPError" ->
            IF o.fp /\ ~o.decodable THEN Raised("UnicodeDecodeError")
            ELSE Returned(Sentinel)
      [] o.kind = "URLError" -> Returned(Sentinel)
      [] o.kind = "Timeout" -> Raised("TimeoutError")

\* len(v)
PyLen(v) ==
    CASE v.t = "list" -> Returned(Len(v.items))
      [] v.t = "str" -> Returned(Len(v.s))
      [] v.t = "obj" -> Returned(Len(v.kv))
      [] OTHER -> Raised("TypeError")

\* v[0] of a value whose len is not 0; the keys of a decoded JSON object are
\* strings, so 0 is never one of them
PyFirst(v) ==
    CASE v.t = "list" -> Returned(v.items[1])
      [] v.t = "str" -> Returned(JStr(<<v.s[1]>>))
      [] OTHER -> Raised("KeyError")

RECURSIVE Filter(_, _, _)
\* [f for f, found in field_results.items() if found = want]
Filter(order, found, want) ==
    IF order = <<>> THEN <<>>
    ELSE (IF found[Head(order)] = want THEN <<Head(order)>> ELSE <<>>)
         \o Filter(Tail(order), found, want)

NoLogsRecord(func_name) ==
    [function |-> func_name, logs_found |-> 0, fields_found |-> <<>>,
     status |-> "NO_LOGS"]

\* the record of line 226 with FOUND decided by nothing missing
FoundRecord_AnyStatus(func_name, log_count, found_fields, missing_fields) ==
    [function |-> func_name, logs_found |-> log_count,
     fields_found |-> found_fields, fields_missing |-> missing_fields,
     status |-> IF missing_fields = <<>> THEN "FOUND" ELSE "NO_EXPECTED_FIELDS"]

\* the record of lines 226-232
FoundRecord(func_name, log_count, found_fields, missing_fields) ==
    [function |-> func_name, logs_found |-> log_count,
     fields_found |-> found_fields, fields_missing |-> missing_fields,
     status |-> IF found_fields # <<>> THEN "FOUND" ELSE "NO_EXPECTED_FIELDS"]

\* lines 190-232 of main for one function: the record to append, or the
\* exception that leaves the loop
AnalyzeResponse(api, resp) ==
    LET logs == Get(resp, K_data, JList(<<>>))
    IN  IF logs.raised THEN logs
        ELSE LET log_count == PyLen(logs.value)
             IN  IF log_count.raised THEN log_count
                 ELSE IF log_count.value = 0 THEN Returned(NoLogsRecord(api.name))
                 ELSE LET first_log == PyFirst(logs.value)
                      IN  IF first_log.raised THEN first_log
                          ELSE LET field_res == check_fields_in_response(
                                                   first_log.value, api.expected_fields)
                                   found_fields == Filter(field_res.order, field_res.found, TRUE)
                                   missing_fields == Filter(field_res.order, field_res.found, FALSE)
                                   body == extract_response_body(first_log.value)
                               IN  IF body.raised THEN body
                                   ELSE Returned(FoundRecord(api.name, log_count.value,
                                                             found_fields, missing_fields))

RECURSIVE NotFoundNames(_)
\* the functions the partial-warning line names
NotFoundNames(summary) ==
    IF summary = <<>> THEN <<>>
    ELSE (IF Head(summary).status # "FOUND" THEN <<Head(summary).function>> ELSE <<>>)
         \o NotFoundNames(Tail(summary))

FoundCount(summary) ==
    Cardinality({i \in 1..Len(summary) : summary[i].status = "FOUND"})

\* lines 257-266 of main: the conclusion printed
Verdict(summary) ==
    LET found_count == FoundCount(summary)
        total == Len(summary)
    IN  IF found_count = total
        THEN [line |-> "All N API functions have logs with expected data",
              found |-> found_count, total |-> total, missing |-> <<>>]
        ELSE IF found_count > 0
        THEN [line |-> "N/M API functions have logs with expected data",
              found |-> found_count, total |-> total,
              missing |-> NotFoundNames(summary)]
        ELSE [line |-> "No API functions found with expected data in logs",
              found |-> found_count, total |-> total, missing |-> <<>>]

CredentialDiagnostic ==
    [line |-> "ERROR: DD_API_KEY and DD_APP_KEY must be set in .env file",
     found |-> 0, total |-> 0, missing |-> <<>>]

-----------------------------------------------------------------------------
(* Inputs of a run *)

MaxLogs == 1

File(lines) == [exists |-> TRUE, lines |-> lines]
NoFile == [exists |-> FALSE, lines |-> <<>>]

BothKeysFile == File(<<<<"D", "D", "_", "A", "P", "I", "_", "K", "E", "Y", "=", "f", "1">>, <<"D", "D", "_", "A", "P", "P", "_", "K", "E", "Y", "=", "f", "2">>>>)

Env(api, app) == [k \in {KEY_API, KEY_APP} |-> IF k = KEY_API THEN api ELSE app]

\* <<file, environment>> pairs: two lack a credential, two have both
RunConfigs ==
    {<<NoFile, Env(None, None)>>, <<NoFile, Env(<<"e", "1">>, <<>>)>>,
     <<NoFile, Env(<<"e", "1">>, <<"e", "2">>)>>, <<BothKeysFile, Env(<<"e", "1">>, None)>>}

AllFieldsText ==
    <<"c", "o", "o", "r", "d", "i", "n", "a", "t", "e", "s", " ", "a", "d", "d", "r", "e", "s", "s", " ", "l", "a", "t", "i", "t", "u", "d", "e", " ", "l", "o", "n", "g", "i", "t", "u", "d", "e", " ", "o", "r", "d", "e", "r", "s", " ", "t", "r", "i", "p", "I", "D", " ", "r", "o", "u", "t", "e", "S", "e", "g", "m", "e", "n", "t", "s", " ", "p", "l", "a", "n", "n", "e", "d", " ", "a", "c", "t", "u", "a", "l", " ", "l", "o", "c", "a", "t", "i", "o", "n", "s", " ", "l", "o", "c", "a", "t", "i", "o", "n", "N", "u", "m", "b", "e", "r", " ", "d", "r", "i", "v", "e", "r", " ", "d", "r", "i", "v", "e", "r", "S", "t", "a", "t", "u", "s">>

E_empty == JObj(<<>>)
E_none == JObj(<< <<K_attributes, JObj(<< <<K_message, JStr(<<"o", "k">>)>> >>)>> >>)
E_partial ==
    JObj(<< <<K_attributes,
              JObj(<< <<K_attributes,
                        JObj(<< <<K_response_body,
                                  JObj(<< <<<<"C", "o", "o", "r", "d", "i", "n", "a", "t", "e", "s">>, JNum(7)>>,
                                          <<<<"p", "l", "a", "n", "n", "e", "d">>, JBool(TRUE)>>,
                                          <<<<"D", "R", "I", "V", "E", "R">>, JNull>> >>)>> >>)>> >>)>> >>)
E_all == JObj(<< <<K_attributes, JObj(<< <<K_message, JStr(AllFieldsText)>> >>)>> >>)
E_nullAttrs == JObj(<< <<K_attributes, JNull>> >>)

RunEntries == {E_none, E_partial, E_all, E_nullAttrs}

\* a data array of n entries whose first is e
DataOf(e, n) == JList([i \in 1..n |-> IF i = 1 THEN e ELSE E_empty])

Body(data) == JObj(<< <<K_data, data>> >>)

RunBodies ==
    {Body(DataOf(e, n)) : e \in RunEntries, n \in 1..MaxLogs}
        \cup {Body(JList(<<>>)), JObj(<<>>), JList(<<>>), Body(JNull),
              Body(JStr(<<"a", "b">>)), Body(JObj(<< <<<<"k">>, JNum(1)>> >>)),
              Body(JObj(<<>>))}

RunOutcomes ==
    {Outcome("URLError", 0, FALSE, FALSE, FALSE, JNull),
     Outcome("Timeout", 0, FALSE, FALSE, FALSE, JNull),
     Outcome("HTTPError", 403, FALSE, FALSE, FALSE, JNull),
     Outcome("HTTPError", 500, TRUE, TRUE, FALSE, JNull),
     Outcome("HTTPError", 502, TRUE, FALSE, FALSE, JNull),
     Outcome("Response", 200, TRUE, FALSE, FALSE, JNull),
     Outcome("Response", 200, TRUE, TRUE, FALSE, JNull)}
        \cup {Outcome("Response", 200, TRUE, TRUE, TRUE, b) : b \in RunBodies}

-----------------------------------------------------------------------------
(* The run of the script *)

NoEntry == JNull
NoResults == [order |-> <<>>, found |-> <<>>]
NoSample == Returned(<<>>)

InspectorIdle ==
    /\ fn = 0
    /\ log_entry = NoEntry
    /\ field_results = NoResults
    /\ sample = NoSample

Init ==
    /\ pc = "start"
    /\ \E c \in RunConfigs : envFile = c[1] /\ environ = c[2]
    /\ env_vars = <<>>
    /\ DD_API_KEY = None
    /\ DD_APP_KEY = None
    /\ exit_status = -1
    /\ stdout = <<>>
    /\ idx = 0
    /\ calls = [i \in 1..Len(API_FUNCTIONS) |-> 0]
    /\ outcome = NoOutcome
    /\ response = JNull
    /\ results_summary = <<>>
    /\ InspectorIdle

\* lines 38-44, then the entry into main up to the loop (lines 166-175)
Startup ==
    /\ pc = "start"
    /\ LET loaded == load_env(envFile)
           api == Credential(loaded, environ, KEY_API)
           app == Credential(loaded, environ, KEY_APP)
       IN  /\ env_vars' = loaded
           /\ DD_API_KEY' = api
           /\ DD_APP_KEY' = app
           /\ IF ~StrTruthy(api) \/ ~StrTruthy(app)
              THEN /\ stdout' = Append(stdout, CredentialDiagnostic)
                   /\ exit_status' = 1
                   /\ pc' = "exited"
                   /\ idx' = idx
              ELSE /\ stdout' = stdout
                   /\ exit_status' = exit_status
                   /\ pc' = "search"
                   /\ idx' = 1
    /\ UNCHANGED <<envFile, environ, calls, outcome, response, results_summary,
                   fn, log_entry, field_results, sample>>

\* line 188: the call of search_logs for API_FUNCTIONS[idx]
SearchLogs ==
    /\ pc = "search"
    /\ \E o \in RunOutcomes :
          LET r == search_logs(o)
          IN  /\ outcome' = o
              /\ calls' = [calls EXCEPT ![idx] = @ + UrlopenCalls(o)]
              /\ IF r.raised
                 THEN /\ pc' = "aborted"
                      /\ exit_status' = 1
                      /\ response' = response
                 ELSE /\ pc' = "analyze"
                      /\ exit_status' = exit_status
                      /\ response' = r.value
    /\ UNCHANGED <<envFile, environ, env_vars, DD_API_KEY, DD_APP_KEY, stdout, idx,
                   results_summary, fn, log_entry, field_results, sample>>

\* the for loop's step
NextIndex(i) == i + 1

\* lines 190-232: the rest of the loop body for API_FUNCTIONS[idx]
Analyze ==
    /\ pc = "analyze"
    /\ LET r == AnalyzeResponse(API_FUNCTIONS[idx], response)
       IN  IF r.raised
           THEN /\ pc' = "aborted"
                /\ exit_status' = 1
                /\ UNCHANGED <<results_summary, idx>>
           ELSE /\ results_summary' = Append(results_summary, r.value)
                /\ idx' = NextIndex(idx)
                /\ pc' = IF Len(results_summary) + 1 >= Len(API_FUNCTIONS)
                         THEN "report" ELSE "search"
                /\ exit_status' = exit_status
    /\ UNCHANGED <<envFile, environ, env_vars, DD_API_KEY, DD_APP_KEY, stdout, calls,
                   outcome, response, fn, log_entry, field_results, sample>>

\* lines 234-268: the summary table and the conclusion; main returns
Report ==
    /\ pc = "report"
    /\ stdout' = Append(stdout, Verdict(results_summary))
    /\ exit_status' = 0
    /\ pc' = "done"
    /\ UNCHANGED <<envFile, environ, env_vars, DD_API_KEY, DD_APP_KEY, idx, calls,
                   outcome, response, results_summary, fn, log_entry, field_results,
                   sample>>

Next == Startup \/ SearchLogs \/ Analyze \/ Report

Spec == Init /\ [][Next]_vars

-----------------------------------------------------------------------------
(* Properties of the run *)

NFunctions == Len(API_FUNCTIONS)

Last(seq) == seq[Len(seq)]

\* a key is unset when neither the file nor the environment gives it a
\* non-empty value
Unset(key) ==
    /\ ~StrTruthy(StrGet(load_env(envFile), key))
    /\ ~StrTruthy(environ[key])

CredentialsSet == ~Unset(KEY_API) /\ ~Unset(KEY_APP)

RunEnded == pc \in {"exited", "aborted", "done"}

\* the iteration that issued the current outcome has appended its record
RecordAppended == pc \in {"search", "report", "done"} /\ outcome # NoOutcome

SearchFailed == outcome.kind \in {"HTTPError", "URLError"}

\* C1: when the search call fails with a non-2xx status or a transport-level
\* failure, search_logs raises nothing and returns {"data": []}, and the
\* record of that function has status NO_LOGS and logs_found 0.
C1_FailedSearchYieldsSentinel ==
    SearchFailed =>
        /\ pc # "aborted"
        /\ pc = "analyze" => response = Sentinel
        /\ RecordAppended =>
              /\ Last(results_summary).status = "NO_LOGS"
              /\ Last(results_summary).logs_found = 0

\* C2: with both credentials set the run never aborts, whatever the search
\* calls do: a failing call gives its function a NO_LOGS record, every
\* function is evaluated and the run reaches the verdict.
C2_RunNeverAborts ==
    CredentialsSet =>
        /\ pc # "aborted"
        /\ exit_status # 1
        /\ (RecordAppended /\ outcome.kind # "Response") =>
              Last(results_summary).status = "NO_LOGS"
        /\ RunEnded => pc = "done" /\ Len(results_summary) = NFunctions

\* C3: a run with an unset credential prints the diagnostic, exits non-zero
\* and never issues a search call; every other run passes the credential
\* check and exits with status 0.
C3_ExitStatus ==
    /\ (~CredentialsSet /\ pc # "start") =>
          /\ pc = "exited"
          /\ exit_status # 0 /\ exit_status # -1
          /\ stdout = <<CredentialDiagnostic>>
          /\ \A i \in 1..NFunctions : calls[i] = 0
    /\ (CredentialsSet /\ pc # "start") => pc # "exited"
    /\ (CredentialsSet /\ RunEnded) => exit_status = 0

\* the entries of a response whose data is an array
HasDataArray(resp) ==
    resp.t = "obj" /\ HasKey(resp, K_data) /\ DictGet(resp, K_data, JNull).t = "list"

Entries(resp) == DictGet(resp, K_data, JNull).items

AnyFieldFound(entry, expected) ==
    \E i \in 1..Len(expected) : In(lower(expected[i]), lower(Dumps(entry, -1, 0)))

\* the status the search result alone decides
StatusOf(resp, expected) ==
    IF Entries(resp) = <<>> THEN "NO_LOGS"
    ELSE IF AnyFieldFound(Entries(resp)[1], expected) THEN "FOUND"
    ELSE "NO_EXPECTED_FIELDS"

\* C4: a function whose search returned a data array ends in exactly one of
\* the three statuses, the one its own search result decides.
C4_StatusBySearchResult ==
    (outcome.kind = "Response" /\ outcome.parses /\ outcome.decodable
        /\ HasDataArray(outcome.json)) =>
        /\ pc # "aborted"
        /\ RecordAppended =>
              Last(results_summary).status =
                  StatusOf(outcome.json,
                           API_FUNCTIONS[Len(results_summary)].expected_fields)

Verdicts == {st \in Elems(stdout) : st # CredentialDiagnostic}

\* C5: a run that passed the credential check prints exactly one verdict:
\* success when every status is FOUND, failure when none is, and otherwise
\* the warning naming the functions that are not FOUND, in list order.
C5_ExactlyOneVerdict ==
    (CredentialsSet /\ RunEnded) =>
        /\ Len(stdout) = 1 /\ Cardinality(Verdicts) = 1
        /\ LET v == stdout[1]
               notFound == {i \in 1..Len(results_summary) :
                               results_summary[i].status # "FOUND"}
           IN  /\ notFound = {} =>
                     v.line = "All N API functions have logs with expected data"
                         /\ v.total = 5
               /\ notFound = 1..Len(results_summary) =>
                     v.line = "No API functions found with expected data in logs"
               /\ (notFound # {} /\ notFound # 1..Len(results_summary)) =>
                     /\ v.line = "N/M API functions have logs with expected data"
                     /\ v.missing = SelectSeq(
                            [i \in 1..NFunctions |-> API_FUNCTIONS[i].name],
                            LAMBDA n : \E i \in notFound : results_summary[i].function = n)

\* C8: the checks run one after another in list order, each with exactly one
\* search call and no retry; the search of a function is issued only after
\* the record of the one before it was appended; after the loop the summary
\* holds one record per function, in list order.
C8_SequentialSingleSearch ==
    /\ \A i \in 1..NFunctions :
          /\ calls[i] <= 1
          /\ calls[i] = 1 =>
                /\ Len(results_summary) >= i - 1
                /\ \A j \in 1..(i - 1) : calls[j] = 1
    /\ pc = "analyze" => calls[idx] = 1 /\ Len(results_summary) = idx - 1
    /\ \A k \in 1..Len(results_summary) :
          /\ results_summary[k].function = API_FUNCTIONS[k].name
          /\ calls[k] = 1
    /\ pc \in {"report", "done"} => Len(results_summary) = NFunctions

C8_Witness ==
    /\ pc = "done"
    /\ Len(results_summary) = NFunctions
    /\ outcome.kind = "HTTPError"
    /\ results_summary[1].status = "FOUND"

ExpectedOf(name) ==
    API_FUNCTIONS[CHOOSE i \in 1..NFunctions : API_FUNCTIONS[i].name = name]
        .expected_fields

\* C10: in every summary record logs_found is 0 exactly when the status is
\* NO_LOGS and fields_found is empty exactly when the status is not FOUND; in
\* a record that is not NO_LOGS, fields_found and fields_missing are disjoint,
\* together hold exactly the expected fields, and keep their order.
C10_RecordsConsistent ==
    \A k \in 1..Len(results_summary) :
        LET r == results_summary[k]
            expected == ExpectedOf(r.function)
        IN  /\ r.status \in {"FOUND", "NO_EXPECTED_FIELDS", "NO_LOGS"}
            /\ (r.logs_found = 0) <=> (r.status = "NO_LOGS")
            /\ (r.fields_found = <<>>) <=> (r.status # "FOUND")
            /\ r.status # "NO_LOGS" =>
                  /\ Elems(r.fields_found) \cap Elems(r.fields_missing) = {}
                  /\ Elems(r.fields_found) \cup Elems(r.fields_missing)
                        = Elems(expected)
                  /\ r.fields_found =
                        SelectSeq(expected, LAMBDA f : f \in Elems(r.fields_found))
                  /\ r.fields_missing =
                        SelectSeq(expected, LAMBDA f : f \in Elems(r.fields_missing))

C10_Witness ==
    /\ pc = "done"
    /\ \E k \in 1..Len(results_summary) :
          /\ results_summary[k].status = "FOUND"
          /\ results_summary[k].fields_missing # <<>>
    /\ \E k \in 1..Len(results_summary) :
          results_summary[k].status = "NO_EXPECTED_FIELDS"
    /\ \E k \in 1..Len(results_summary) : results_summary[k].status = "NO_LOGS"

-----------------------------------------------------------------------------
(* The loader on its own: every file of at most MaxLines lines *)

MaxLines == 2

LinePool ==
    {<<>>, <<"O", "T", "H", "E", "R", "=", "x">>,
     <<"D", "D", "_", "A", "P", "I", "_", "K", "E", "Y", "=", "f", "1">>, <<"D", "D", "_", "A", "P", "I", "_", "K", "E", "Y", "=">>, <<" ", " ", "D", "D", "_", "A", "P", "I", "_", "K", "E", "Y", " ", "=", " ", "f", "2", " ", " ">>,
     <<"#", "D", "D", "_", "A", "P", "I", "_", "K", "E", "Y", "=", "f", "3">>, <<"D", "D", "_", "A", "P", "I", "_", "K", "E", "Y">>, <<"D", "D", "_", "A", "P", "I", "_", "K", "E", "Y", "=", "a", "=", "b">>,
     <<"D", "D", "_", "A", "P", "P", "_", "K", "E", "Y", "=", "g", "1">>, <<"D", "D", "_", "A", "P", "P", "_", "K", "E", "Y", "=">>, <<" ", "D", "D", "_", "A", "P", "P", "_", "K", "E", "Y", " ", "=", "g", "2">>,
     <<"#", " ", "D", "D", "_", "A", "P", "P", "_", "K", "E", "Y", "=", "g", "3">>, <<"D", "D", "_", "A", "P", "P", "_", "K", "E", "Y", " ", "g", "4">>, <<"D", "D", "_", "A", "P", "P", "_", "K", "E", "Y", "=", "=", "g", "5">>}

RECURSIVE SeqsUpTo(_, _)
\* the sequences over S of length at most n
SeqsUpTo(S, n) ==
    IF n = 0 THEN {<<>>}
    ELSE LET shorter == SeqsUpTo(S, n - 1)
         IN  shorter \cup {Append(s, x) : s \in shorter, x \in S}

LoadFiles == {NoFile} \cup {File(ls) : ls \in SeqsUpTo(LinePool, MaxLines)}

EnvValues == {None, <<>>, <<"e", "1">>}
LoadEnvirons == {Env(a, b) : a \in EnvValues, b \in EnvValues}

InitLoad ==
    /\ pc = "start"
    /\ envFile \in LoadFiles
    /\ environ \in LoadEnvirons
    /\ env_vars = <<>>
    /\ DD_API_KEY = None
    /\ DD_APP_KEY = None
    /\ exit_status = -1
    /\ stdout = <<>>
    /\ idx = 0
    /\ calls = [i \in 1..Len(API_FUNCTIONS) |-> 0]
    /\ outcome = NoOutcome
    /\ response = JNull
    /\ results_summary = <<>>
    /\ InspectorIdle

SpecLoad == InitLoad /\ [][Startup]_vars

\* the lines of the file that assign key: not blank, not a comment, with
\* a "=" whose left side is the key
AssignLines(key) ==
    {i \in 1..Len(envFile.lines) :
        LET line == strip(envFile.lines[i])
        IN  /\ line # <<>>
            /\ Head(line) # "#"
            /\ "=" \in Elems(line)
            /\ strip(SplitKey(line)) = key}

FileHasKey(key) == envFile.exists /\ AssignLines(key) # {}

\* the value the file's last assignment of key gives it
FileValue(key) ==
    LET last == CHOOSE i \in AssignLines(key) : \A j \in AssignLines(key) : j <= i
    IN  strip(SplitValue(strip(envFile.lines[last])))

Loaded(key) == IF key = KEY_API THEN DD_API_KEY ELSE DD_APP_KEY

\* an absent and an empty credential are the same credential
SameCredential(a, b) == a = b \/ (~StrTruthy(a) /\ ~StrTruthy(b))

\* C6 as stated: the file's value whenever the file contains the key, the
\* environment's only when the file lacks the key.
C6_FileValueWhenever ==
    pc # "start" =>
        \A key \in {KEY_API, KEY_APP} :
            IF FileHasKey(key) THEN SameCredential(Loaded(key), FileValue(key))
            ELSE Loaded(key) = environ[key]

\* C6 amended: the file's value whenever the file gives the key a non-empty
\* value, whatever the environment holds; the environment's value when the
\* file lacks the key or gives it an empty value.
C6_FileValueWhenNonEmpty ==
    pc # "start" =>
        \A key \in {KEY_API, KEY_APP} :
            IF FileHasKey(key) /\ FileValue(key) # <<>>
            THEN Loaded(key) = FileValue(key)
            ELSE Loaded(key) = environ[key]

C6_Witness ==
    /\ pc # "start"
    /\ FileHasKey(KEY_API) /\ FileValue(KEY_API) = <<"f", "2">>
    /\ environ[KEY_API] = <<"e", "1">>
    /\ DD_API_KEY = <<"f", "2">>
    /\ FileHasKey(KEY_APP) /\ FileValue(KEY_APP) = <<>>
    /\ environ[KEY_APP] = <<"e", "1">>
    /\ DD_APP_KEY = <<"e", "1">>

-----------------------------------------------------------------------------
(* The field inspector on its own *)

MaxParts == 2

\* pieces of payload text: field names in several letter cases, halves of
\* field names, and characters json.dumps escapes
Fragments ==
    {<<"c", "o", "o", "r", "d", "i", "n", "a", "t", "e", "s">>, <<"A", "D", "D", "R">>, <<"e", "s", "s">>, <<"L", "a", "t">>, <<"i", "t", "u", "d", "e">>, <<"T", "r", "i", "p", "I", "d">>,
     <<"A", "c", "t", "u", "a", "l">>, <<"D", "r", "i", "v", "e", "r">>, <<"s", "t", "a", "t", "u", "s">>, <<"\"">>, <<"U+00E9">>, <<" ">>}

Texts == {Concat(parts) : parts \in SeqsUpTo(Fragments, MaxParts)}

\* an entry with the text as a nested value, as a key, and inside a list
FieldEntries ==
    {JObj(<< <<K_attributes, JObj(<< <<K_message, JStr(s)>> >>)>> >>) : s \in Texts}
        \cup {JObj(<< <<s, JNum(1)>> >>) : s \in Texts}
        \cup {JObj(<< <<<<"t", "a", "g", "s">>, JList(<<JNull, JStr(s)>>)>> >>) : s \in Texts}

RunIdle ==
    /\ envFile = NoFile
    /\ environ = Env(None, None)
    /\ env_vars = <<>>
    /\ DD_API_KEY = None
    /\ DD_APP_KEY = None
    /\ exit_status = -1
    /\ stdout = <<>>
    /\ idx = 0
    /\ calls = [i \in 1..Len(API_FUNCTIONS) |-> 0]
    /\ outcome = NoOutcome
    /\ response = JNull
    /\ results_summary = <<>>

InitFields ==
    /\ pc = "inspect"
    /\ fn \in 1..Len(API_FUNCTIONS)
    /\ log_entry \in FieldEntries
    /\ field_results = NoResults
    /\ sample = NoSample
    /\ RunIdle

\* line 207: the call of check_fields_in_response
CheckFields ==
    /\ pc = "inspect"
    /\ field_results' =
          check_fields_in_response(log_entry, API_FUNCTIONS[fn].expected_fields)
    /\ pc' = "inspected"
    /\ UNCHANGED <<envFile, environ, env_vars, DD_API_KEY, DD_APP_KEY, exit_status,
                   stdout, idx, calls, outcome, response, results_summary, fn,
                   log_entry, sample>>

SpecFields == InitFields /\ [][CheckFields]_vars

RECURSIVE PayloadStrings(_)
\* every key and every string value of a JSON value, at any depth
PayloadStrings(v) ==
    CASE v.t = "str" -> {v.s}
      [] v.t = "list" ->
            UNION {PayloadStrings(v.items[i]) : i \in 1..Len(v.items)}
      [] v.t = "obj" ->
            UNION {{v.kv[i][1]} \cup PayloadStrings(v.kv[i][2]) : i \in 1..Len(v.kv)}
      [] OTHER -> {}

\* needle is hay[i..j] for some i and j
Occurs(needle, hay) ==
    \E i \in 1..(Len(hay) + 1) : \E j \in (i - 1)..Len(hay) :
        /\ j - i + 1 = Len(needle)
        /\ \A k \in 1..Len(needle) : hay[i + k - 1] = needle[k]

\* C7: the keys of the result are exactly the expected field names, and a
\* field is reported found exactly when its lowercased name occurs in the
\* lowercased serialized entry; so a name that occurs in any key or string
\* of the payload, in any letter case, is reported found.
C7_FoundIffSubstring ==
    pc = "inspected" =>
        LET expected == API_FUNCTIONS[fn].expected_fields
            serialized == lower(Dumps(log_entry, -1, 0))
        IN  /\ DOMAIN field_results.found = Elems(expected)
            /\ field_results.order = expected
            /\ \A f \in Elems(expected) :
                  /\ field_results.found[f] <=> Occurs(lower(f), serialized)
                  /\ (\E s \in PayloadStrings(log_entry) : Occurs(lower(f), lower(s)))
                        => field_results.found[f]

C7_Witness ==
    /\ pc = "inspected"
    /\ fn = 1
    /\ <<"A", "D", "D", "R", "e", "s", "s">> \in PayloadStrings(log_entry)
    /\ field_results.found[<<"a", "d", "d", "r", "e", "s", "s">>]
    /\ ~field_results.found[<<"l", "a", "t", "i", "t", "u", "d", "e">>]

-----------------------------------------------------------------------------
(* The content-sample extractor on its own *)

LongText == [i \in 1..(SampleLimit + 1) |-> "y"]

\* what a candidate location can hold; Absent is no key at all
Absent == [t |-> "absent"]

CandidateValues ==
    {Absent, JNull, JStr(<<>>), JStr(<<"t", "e", "x", "t">>), JStr(LongText), JObj(<<>>),
     JObj(<< <<<<"k">>, JStr(LongText)>> >>), JNum(5)}

\* a dict with the given keys, those whose value is Absent left out
DictOf(pairs) == JObj(SelectSeq(pairs, LAMBDA p : p[2] # Absent))

InnerValues ==
    {DictOf(<< <<K_response_body, a>>, <<K_response, b>>, <<K_body, c>> >>) :
        a \in CandidateValues, b \in {Absent, JStr(<<"r", "e", "s", "p">>)},
        c \in {Absent, JObj(<< <<<<"i", "t", "e", "m", "s">>, JList(<<JNum(1), JList(<<>>)>>)>> >>)}}
        \cup {Absent, JNull, JStr(<<"a", "b", "c">>), JList(<<JNum(1)>>),
              JObj(<< <<<<"t", "r", "a", "c", "e">>, JStr(<<"t", "1">>)>> >>)}

AttrsValues ==
    {DictOf(<< <<K_message, m>>, <<K_attributes, inner>> >>) :
        m \in {Absent, JStr(<<>>), JStr(<<"h", "a", "n", "d", "l", "e", "d", " ", "r", "e", "q", "u", "e", "s", "t">>)},
        inner \in InnerValues}
        \cup {Absent, JNull, JStr(<<"a", "b", "c">>)}

ExtractEntries ==
    {DictOf(<< <<<<"i", "d">>, JStr(<<"A", "1">>)>>, <<K_attributes, attrs>> >>) :
        attrs \in AttrsValues}

InitExtract ==
    /\ pc = "extract"
    /\ fn = 0
    /\ log_entry \in ExtractEntries
    /\ field_results = NoResults
    /\ sample = NoSample
    /\ RunIdle

\* line 219: the call of extract_response_body
ExtractBody ==
    /\ pc = "extract"
    /\ sample' = extract_response_body(log_entry)
    /\ pc' = "extracted"
    /\ UNCHANGED <<envFile, environ, env_vars, DD_API_KEY, DD_APP_KEY, exit_status,
                   stdout, idx, calls, outcome, response, results_summary, fn,
                   log_entry, field_results>>

SpecExtract == InitExtract /\ [][ExtractBody]_vars

RECURSIVE Lookup(_, _)
\* the value at a nested path, Absent when a step is missing or is no dict
Lookup(v, path) ==
    IF path = <<>> THEN v
    ELSE IF v.t = "obj" /\ HasKey(v, Head(path))
         THEN Lookup(DictGet(v, Head(path), Absent), Tail(path))
         ELSE Absent

CandidatePaths ==
    <<<<K_attributes, K_attributes, K_response_body>>,
      <<K_attributes, K_attributes, K_response>>,
      <<K_attributes, K_attributes, K_body>>,
      <<K_attributes, K_message>>,
      <<K_attributes, K_attributes>>>>

Candidates(entry) == [i \in 1..Len(CandidatePaths) |-> Lookup(entry, CandidatePaths[i])]

Usable(v) == v.t \in {"str", "obj"}

Rendered(v) == IF v.t = "obj" THEN Dumps(v, 2, 0) ELSE v.s

\* C9: the sample is the first candidate location whose value is present
\* and a string or a mapping, a mapping pretty-printed, cut to its first 2000
\* characters; an entry that misses nested paths raises no error.  Stated for
\* the entries whose attributes.attributes holds a string or a mapping and
\* none of whose candidates is an empty string or an empty mapping.
C9_FirstPresentCandidate ==
    LET cands == Candidates(log_entry)
        usable == {i \in 1..Len(cands) : Usable(cands[i])}
    IN  (/\ pc = "extracted"
         /\ Len(cands) \in usable
         /\ \A i \in usable : Truthy(cands[i])) =>
            /\ ~sample.raised
            /\ LET first == CHOOSE i \in usable : \A j \in usable : i <= j
               IN  /\ sample.value = Prefix(Rendered(cands[first]), SampleLimit)
                   /\ Len(sample.value) <= SampleLimit
=============================================================================
